---------------------------- MODULE Spec2Model ----------------------------
(***************************************************************************)
(* Black-hole visualiser: the orbiting camera (camera.py), the per-pixel   *)
(* ray caster, the whole-frame render() and the progressive scanline       *)
(* renderer with its host loop (main.py).                                  *)
(*                                                                         *)
(* The program computes in float64.  The model computes the same formulas  *)
(* in fixed point: angles in units of 1/AS radian, unit vectors and        *)
(* trigonometric values scaled by DS, lengths scaled by LS.  Every         *)
(* division floors.  TLC's integers are 32 bit wide, so the scales are     *)
(* chosen to keep every intermediate product below 2^31.                   *)
(*                                                                         *)
(* The program evaluates each intermediate value once and names it.  Bind  *)
(* does the same here: Bind(v, F) evaluates v once and applies F to it.    *)
(***************************************************************************)
EXTENDS Integers, Sequences, FiniteSets, TLC

VARIABLES
    theta, phi, dragging,   \* Camera: orbit angles (1/AS rad), drag flag
    dirty,                  \* Camera: the flag consume_dirty() reads
    HEIGHT, WIDTH,          \* module globals of main.py
    rh, rw,                 \* ProgressiveRender: image size
    frame, next_row, active,\* ProgressiveRender: buffer, cursor, scanning flag
    running, pc,            \* host loop: flag and position
    rows,                   \* the rows_per_frame passed to step()
    op,                     \* the operation that acted last, with its argument
    ret,                    \* what the last consume_dirty() returned
    moved,                  \* a drag motion was handled since the last consume_dirty()
    changed,                \* a drag motion was handled in this loop iteration
    polled,                 \* events handled in this loop iteration
    calls,                  \* step() calls since the last start()
    stable,                 \* the orientation has not changed since the last start()
    rowCam,                 \* per row: the orientation it was last written with
    outRender, outStep      \* results of the last compositing decision

camVars == <<theta, phi, dragging, dirty>>
renVars == <<rh, rw, frame, next_row, active>>
loopVars == <<running, pc, changed, polled>>
vars == <<theta, phi, dragging, dirty, HEIGHT, WIDTH, rh, rw, frame, next_row,
          active, running, pc, rows, op, ret, moved, changed, polled, calls,
          stable, rowCam, outRender, outStep>>

---------------------------------------------------------------------------
(* Fixed-point arithmetic *)

AS == 10000     \* angle units per radian; also the scale of sin and cos
DS == 10000     \* scale of unit vectors and of normalised device coordinates
LS == 400       \* scale of lengths (positions, hit distances, radii)
SAT == 30000    \* saturation of a length before it is squared (75 units)

\* F applied to the value of v
Bind(v, F(_)) == CHOOSE r \in { F(x) : x \in {v} } : TRUE

Min(a, b) == IF a < b THEN a ELSE b
Max(a, b) == IF a > b THEN a ELSE b

\* floor(a / b) for b # 0
Div(a, b) == IF b < 0 THEN (0 - a) \div (0 - b) ELSE a \div b

\* floor(a * b / s) for a >= 0, without forming a * b
MulDiv(a, b, s) == (a \div s) * b + ((a % s) * b) \div s

Sat(v) == Max(0 - SAT, Min(SAT, v))

RECURSIVE SqrtIter(_, _)
SqrtIter(n, x) ==
    LET Improve(y) == IF y >= x THEN x ELSE SqrtIter(n, y)
    IN  Bind((x + n \div x) \div 2, Improve)

\* np.sqrt on a non-negative fixed-point value: floor of the square root
Sqrt(m) ==
    LET Root(n) == IF n <= 0 THEN 0 ELSE SqrtIter(n, n)
    IN  Bind(m, Root)

PiHalf == 15707     \* np.pi / 2
Pi == 31415         \* np.pi
TwoPi == 62831      \* 2 * np.pi

\* Taylor series of sin and cos on [-pi/2, pi/2]; t is the previous term,
\* x2 the square of the angle, k the index of the next term
RECURSIVE Series(_, _, _, _)
Series(t, x2, k, odd) ==
    IF k > 5 THEN 0
    ELSE LET d == IF odd THEN (2 * k) * (2 * k + 1) ELSE (2 * k - 1) * (2 * k)
             Rest(n) == n + Series(n, x2, k + 1, odd)
         IN  Bind(0 - (((t * x2) \div AS) \div d), Rest)

SinCore(x) == LET From(x2) == x + Series(x, x2, 1, TRUE) IN Bind((x * x) \div AS, From)
CosCore(x) == LET From(x2) == AS + Series(AS, x2, 1, FALSE) IN Bind((x * x) \div AS, From)

\* the angle reduced to (-pi, pi]
Reduce(a) == LET r == a % TwoPi IN IF r > Pi THEN r - TwoPi ELSE r

\* np.sin, np.cos
Sin(a) ==
    LET Of(r) ==
            IF r > PiHalf THEN SinCore(Pi - r)
            ELSE IF r < 0 - PiHalf THEN SinCore(0 - Pi - r)
            ELSE SinCore(r)
    IN  Bind(Reduce(a), Of)

Cos(a) ==
    LET Of(r) ==
            IF r > PiHalf THEN 0 - CosCore(Pi - r)
            ELSE IF r < 0 - PiHalf THEN 0 - CosCore(0 - Pi - r)
            ELSE CosCore(r)
    IN  Bind(Reduce(a), Of)

\* np.dot, np.cross (of two DS-scaled vectors), np.linalg.norm
Dot(a, b) == a[1] * b[1] + a[2] * b[2] + a[3] * b[3]
Cross(a, b) == << (a[2] * b[3] - a[3] * b[2]) \div DS,
                  (a[3] * b[1] - a[1] * b[3]) \div DS,
                  (a[1] * b[2] - a[2] * b[1]) \div DS >>
Norm(v) == Sqrt(Dot(v, v))

\* numpy's result of dividing a vector by a zero norm: every comparison with
\* a component of it is false
NaNVec == << >>

\* v / np.linalg.norm(v), as a unit vector
Normalize(v) ==
    LET Scaled(w) ==
            LET By(n) ==
                    IF n = 0 THEN NaNVec
                    ELSE << Div(w[1] * DS, n), Div(w[2] * DS, n), Div(w[3] * DS, n) >>
            IN  Bind(Norm(w), By)
    IN  Bind(v, Scaled)

---------------------------------------------------------------------------
(* Camera (camera.py) *)

radius == 50                \* self.radius
mouse_sensitivity == 50     \* self.mouse_sensitivity = 0.005 rad per pixel
TanHalfFov == 5773          \* tan(self.fov / 2), fov = np.radians(60)

\* Camera.position
position(th, ph) ==
    LET At(rc) == << (rc * Cos(th)) \div AS,
                     (radius * LS * Sin(ph)) \div AS,
                     (rc * Sin(th)) \div AS >>
    IN  Bind((radius * LS * Cos(ph)) \div AS, At)

\* Camera.basis_vectors: <<forward, right, up>>
basis_vectors(th, ph) ==
    LET Forward(pos) == Normalize(<< 0 - pos[1], 0 - pos[2], 0 - pos[3] >>)
        Right(forward) == Normalize(<< forward[3], 0, 0 - forward[1] >>)
        Basis(forward, right) ==
            IF right = NaNVec THEN << forward, NaNVec, NaNVec >>
            ELSE << forward, right, Cross(forward, right) >>
        From(forward) ==
            LET With(right) == Basis(forward, right)
            IN  Bind(Right(forward), With)
    IN  Bind(Bind(position(th, ph), Forward), From)

\* Camera.ray_direction: the ray through the centre of pixel (x, y), the
\* inverse of Camera.project
ray_direction(th, ph, x, y, w, h) ==
    LET xn == ((2 * x + 1) * DS) \div w - DS
        yn == DS - ((2 * y + 1) * DS) \div h
        cx == (xn * TanHalfFov) \div DS
        cy == (yn * TanHalfFov) \div DS
        Through(b) ==
            IF b[2] = NaNVec THEN NaNVec
            ELSE Normalize(<< (b[2][1] * cx + b[3][1] * cy) \div DS + b[1][1],
                              (b[2][2] * cx + b[3][2] * cy) \div DS + b[1][2],
                              (b[2][3] * cx + b[3][3] * cy) \div DS + b[1][3] >>)
    IN  Bind(basis_vectors(th, ph), Through)

---------------------------------------------------------------------------
(* Scene and per-pixel ray casting (main.py) *)

BH_RADIUS == (3 * LS) \div 2
DISK_INNER_RADIUS == 5 * LS
DISK_OUTER_RADIUS == 8 * LS

None == << >>
Some(t) == << t >>

\* intersect_sphere: the hit distance, or None.  1e-6 is below the
\* resolution 1/LS, so t > 1e-6 is t > 0.
intersect_sphere(ro, rd, rad) ==
    IF rd = NaNVec THEN None
    ELSE LET c == Dot(ro, ro) - rad * rad
             Solve(b) ==
                LET Roots(disc) ==
                        LET Nearest(sqrt_disc) ==
                                LET t0 == ((0 - b) - sqrt_disc) \div 2
                                    t1 == ((0 - b) + sqrt_disc) \div 2
                                IN  IF t0 > 0 THEN Some(t0)
                                    ELSE IF t1 > 0 THEN Some(t1)
                                    ELSE None
                        IN  IF disc < 0 THEN None ELSE Bind(Sqrt(disc), Nearest)
                IN  Bind(b * b - 4 * c, Roots)
         IN  Bind((2 * Dot(ro, rd)) \div DS, Solve)

\* ro + t * rd
PointAt(ro, rd, t) == << ro[1] + MulDiv(t, rd[1], DS),
                         ro[2] + MulDiv(t, rd[2], DS),
                         ro[3] + MulDiv(t, rd[3], DS) >>

\* np.sqrt(p[0]*p[0] + p[2]*p[2])
PlanarRadius(p) ==
    LET Of(q) == Sqrt(Sat(q[1]) * Sat(q[1]) + Sat(q[3]) * Sat(q[3]))
    IN  Bind(p, Of)

\* intersect_disk: the hit distance, or None
intersect_disk(ro, rd, r_inner, r_outer) ==
    IF rd = NaNVec THEN None
    ELSE IF rd[2] = 0 THEN None
    ELSE LET Hit(t) ==
                LET Within(r) == IF r_inner <= r /\ r <= r_outer THEN Some(t) ELSE None
                IN  IF t <= 0 THEN None
                    ELSE Bind(PlanarRadius(PointAt(ro, rd, t)), Within)
         IN  Bind(Div((0 - ro[2]) * DS, rd[2]), Hit)

\* shade_disk
shade_disk(point) ==
    LET U(r) == Max(0, Min(1000, Div((r - DISK_INNER_RADIUS) * 1000,
                                     DISK_OUTER_RADIUS - DISK_INNER_RADIUS)))
        Warm(brightness) ==
            << brightness, (brightness * 8) \div 10, (brightness * 3) \div 10 >>
        Shade(u) == Bind((255 * (1000 - (800 * u) \div 1000)) \div 1000, Warm)
    IN  Bind(Bind(PlanarRadius(point), U), Shade)

BLACK == << 0, 0, 0 >>
BACKGROUND == << 25, 25, 45 >>

\* render(), lines 152-164: what the pixel sees
render_composite(ro, rd, t_bh, t_disk) ==
    IF t_bh # None /\ (t_disk = None \/ t_bh[1] < t_disk[1]) THEN BLACK
    ELSE IF t_disk # None THEN shade_disk(PointAt(ro, rd, t_disk[1]))
    ELSE BACKGROUND

\* a faulty decision that paints a tie black
step_composite_ties_black(ro, rd, t_bh, t_disk) ==
    IF t_bh # None /\ (t_disk = None \/ t_bh[1] <= t_disk[1]) THEN BLACK
    ELSE IF t_disk # None THEN shade_disk(PointAt(ro, rd, t_disk[1]))
    ELSE BACKGROUND

\* ProgressiveRender.step, lines 198-210: what the pixel sees
step_composite(ro, rd, t_bh, t_disk) ==
    IF t_bh # None /\ (t_disk = None \/ t_bh[1] < t_disk[1]) THEN BLACK
    ELSE IF t_disk # None THEN shade_disk(PointAt(ro, rd, t_disk[1]))
    ELSE BACKGROUND

\* render(), lines 145-164: one pixel of the whole-frame image
render_pixel(ro, th, ph, x, y) ==
    LET Sees(rd) ==
            render_composite(ro, rd,
                intersect_sphere(ro, rd, BH_RADIUS),
                intersect_disk(ro, rd, DISK_INNER_RADIUS, DISK_OUTER_RADIUS))
    IN  Bind(ray_direction(th, ph, x, y, WIDTH, HEIGHT), Sees)

\* render(camera): the whole image for the orientation (th, ph)
render(th, ph) ==
    LET Image(ro) ==
            [y \in 0 .. HEIGHT - 1 |->
                [x \in 0 .. WIDTH - 1 |-> render_pixel(ro, th, ph, x, y)]]
    IN  Bind(position(th, ph), Image)

\* ProgressiveRender.step, lines 191-210: one pixel of a scanned row
step_pixel(ro, th, ph, x, y) ==
    LET Sees(rd) ==
            step_composite(ro, rd,
                intersect_sphere(ro, rd, BH_RADIUS),
                intersect_disk(ro, rd, DISK_INNER_RADIUS, DISK_OUTER_RADIUS))
    IN  Bind(ray_direction(th, ph, x, y, rw, rh), Sees)

---------------------------------------------------------------------------
(* Bounds of the model *)

MaxHeight == 4      \* image heights 1 .. MaxHeight
MaxWidth == 1       \* image widths 1 .. MaxWidth
MaxRows == 3        \* rows per step() call 1 .. MaxRows
Drag == 200         \* pixels of one drag motion
MaxTheta == 20000   \* |theta| explored
MaxEvents == 2      \* events the host loop polls in one iteration
MaxT == 6           \* hit distances offered to the compositing decision

BigDrag == 2 * Drag
HugeDrag == 100 * Drag

Ceil(a, b) == (a + b - 1) \div b

---------------------------------------------------------------------------
(* Camera operations *)

\* a faulty clamp with the lower limit left out
ClampPhiUpperOnly(p) == Min(PiHalf, p)

\* Camera.handle_event, line 60
ClampPhi(p) == Max(0 - PiHalf, Min(PiHalf, p))

\* a faulty guard that ignores self.dragging
MotionAppliesAlways(ev, drag) == ev.type = "MOUSEMOTION"

\* Camera.handle_event, line 56: the motion branch is taken
MotionApplies(ev, drag) == ev.type = "MOUSEMOTION" /\ drag

\* Camera.handle_event: the camera's fields after the event.  No line of it
\* (and none of Camera.__init__) assigns a dirty flag.
handle_event(ev) ==
    /\ dragging' = CASE ev.type = "MOUSEBUTTONDOWN" /\ ev.button = 1 -> TRUE
                     [] ev.type = "MOUSEBUTTONUP" /\ ev.button = 1 -> FALSE
                     [] OTHER -> dragging
    /\ IF MotionApplies(ev, dragging)
       THEN /\ theta' = theta + ev.rel[1] * mouse_sensitivity
            /\ phi' = ClampPhi(phi - ev.rel[2] * mouse_sensitivity)
       ELSE UNCHANGED <<theta, phi>>
    /\ UNCHANGED dirty

\* Camera.consume_dirty: returns the flag and clears it
consume_dirty ==
    /\ ret' = dirty
    /\ dirty' = FALSE

Event(type, button, rel) == [type |-> type, button |-> button, rel |-> rel]

IsDragMotion(ev, drag) == ev.type = "MOUSEMOTION" /\ drag

\* handle_event with the bookkeeping of the history variables
HandleEvent(ev) ==
    /\ handle_event(ev)
    /\ theta' \in (0 - MaxTheta) .. MaxTheta
    /\ moved' = (moved \/ IsDragMotion(ev, dragging))
    /\ stable' = (stable /\ theta' = theta /\ phi' = phi)
    /\ op' = <<"event", ev>>

---------------------------------------------------------------------------
(* ProgressiveRender operations *)

\* ProgressiveRender.start
start ==
    /\ next_row' = 0
    /\ active' = TRUE
    /\ UNCHANGED <<rh, rw, frame>>
    /\ calls' = 0
    /\ stable' = TRUE
    /\ UNCHANGED rowCam

\* a faulty step without the early return
step_returns_never(act) == FALSE

\* step, lines 183-184: the early return
step_returns(act) == ~act

\* a faulty row range that stops one row short of the height
StepRowsShort(nr, R, h) == nr .. (Min(nr + R, h - 1) - 1)

\* step, line 188: the rows one call scans
StepRows(nr, R, h) == nr .. (Min(nr + R, h) - 1)

\* a faulty advance by twice the rows scanned
StepAdvanceTwice(nr, R) == nr + 2 * R

\* step, line 212
StepAdvance(nr, R) == nr + R

\* a faulty completion test, strict
ScanCompleteStrict(nr, h) == nr > h

\* step, line 214
ScanComplete(nr, h) == nr >= h

\* ProgressiveRender.step(camera, R)
step(R) ==
    /\ IF step_returns(active)
       THEN UNCHANGED <<frame, next_row, active, rowCam>>
       ELSE LET scanned == StepRows(next_row, R, rh)
                Scan(ro) ==
                    [y \in 0 .. rh - 1 |->
                        IF y \in scanned
                        THEN [x \in 0 .. rw - 1 |-> step_pixel(ro, theta, phi, x, y)]
                        ELSE frame[y]]
            IN  /\ frame' = Bind(position(theta, phi), Scan)
                /\ next_row' = StepAdvance(next_row, R)
                /\ active' = ~ScanComplete(StepAdvance(next_row, R), rh)
                /\ rowCam' = [y \in 0 .. rh - 1 |->
                        IF y \in scanned THEN <<theta, phi>> ELSE rowCam[y]]
    /\ UNCHANGED <<rh, rw>>
    /\ calls' = IF calls <= rh THEN calls + 1 ELSE calls
    /\ UNCHANGED stable

---------------------------------------------------------------------------
(* Initial state: main.py lines 12-219 *)

Setup ==
    /\ theta = 0 /\ phi = 0 /\ dragging = FALSE
    /\ dirty = FALSE
    /\ HEIGHT \in 1 .. MaxHeight
    /\ WIDTH \in 1 .. MaxWidth
    /\ rh = HEIGHT /\ rw = WIDTH
    /\ frame = [y \in 0 .. HEIGHT - 1 |-> [x \in 0 .. WIDTH - 1 |-> BLACK]]
    /\ next_row = 0 /\ active = TRUE
    /\ running = TRUE /\ pc = "events"
    /\ rows \in 1 .. MaxRows
    /\ ret = FALSE /\ moved = FALSE /\ changed = FALSE /\ polled = 0
    /\ calls = 0 /\ stable = TRUE
    /\ rowCam = [y \in 0 .. HEIGHT - 1 |-> << >>]
    /\ outRender = BLACK /\ outStep = BLACK

Init == Setup /\ op = <<"init">>

---------------------------------------------------------------------------
(* The renderer driven call by call *)

ScanRels == { <<Drag, 0 - Drag>> }

ScanEvents ==
    { Event("MOUSEBUTTONDOWN", 1, <<0, 0>>), Event("MOUSEBUTTONUP", 1, <<0, 0>>) }
    \cup { Event("MOUSEMOTION", 0, r) : r \in ScanRels }

Start ==
    /\ start
    /\ op' = <<"start">>
    /\ UNCHANGED <<camVars, HEIGHT, WIDTH, loopVars, rows, ret, moved,
                   outRender, outStep>>

Step ==
    /\ step(rows)
    /\ op' = <<"step">>
    /\ UNCHANGED <<camVars, HEIGHT, WIDTH, loopVars, rows, ret, moved,
                   outRender, outStep>>

Input(ev) ==
    /\ HandleEvent(ev)
    /\ UNCHANGED <<HEIGHT, WIDTH, renVars, loopVars, rows, ret, calls, rowCam,
                   outRender, outStep>>

Next ==
    \/ Start
    \/ Step
    \/ \E ev \in ScanEvents : Input(ev)

Spec == Init /\ [][Next]_vars

---------------------------------------------------------------------------
(* The camera driven event by event *)

CameraRels ==
    { <<dx, dy>> : dx \in {0 - Drag, Drag},
                   dy \in {0 - HugeDrag, 0 - BigDrag, 0 - Drag, Drag, BigDrag, HugeDrag} }

CameraEvents ==
    { Event(t, b, <<0, 0>>) : t \in {"MOUSEBUTTONDOWN", "MOUSEBUTTONUP"}, b \in {1, 3} }
    \cup { Event("MOUSEMOTION", 0, r) : r \in CameraRels }
    \cup { Event("KEYDOWN", 0, <<0, 0>>) }

Consume ==
    /\ consume_dirty
    /\ moved' = FALSE
    /\ op' = <<"consume_dirty">>
    /\ UNCHANGED <<theta, phi, dragging, HEIGHT, WIDTH, renVars, loopVars, rows,
                   calls, stable, rowCam, outRender, outStep>>

NextCamera ==
    \/ \E ev \in CameraEvents : Input(ev)
    \/ Consume

SpecCamera == Init /\ [][NextCamera]_vars

---------------------------------------------------------------------------
(* The host loop: main.py lines 224-248 *)

LoopEvents == ScanEvents \cup { Event("QUIT", 0, <<0, 0>>) }

\* lines 230-233: one event of pygame.event.get()
PollEvent(ev) ==
    /\ pc = "events"
    /\ polled < MaxEvents
    /\ running' = (running /\ ev.type # "QUIT")
    /\ HandleEvent(ev)
    /\ changed' = (changed \/ IsDragMotion(ev, dragging))
    /\ polled' = polled + 1
    /\ UNCHANGED <<HEIGHT, WIDTH, renVars, pc, rows, ret, calls, rowCam,
                   outRender, outStep>>

\* lines 236-237: if camera.consume_dirty(): renderer.start()
ConsumeDirty ==
    /\ pc = "events"
    /\ consume_dirty
    /\ moved' = FALSE
    /\ IF dirty THEN start
       ELSE UNCHANGED <<renVars, calls, stable, rowCam>>
    /\ pc' = "step"
    /\ op' = <<"consume_dirty">>
    /\ UNCHANGED <<theta, phi, dragging, HEIGHT, WIDTH, running, changed, polled,
                   rows, outRender, outStep>>

\* lines 239-248: renderer.step(camera, 20), present, loop test
LoopStep ==
    /\ pc = "step"
    /\ step(rows)
    /\ pc' = IF running THEN "events" ELSE "done"
    /\ changed' = FALSE
    /\ polled' = 0
    /\ op' = <<"step">>
    /\ UNCHANGED <<camVars, HEIGHT, WIDTH, running, rows, ret, moved,
                   outRender, outStep>>

NextLoop ==
    \/ \E ev \in LoopEvents : PollEvent(ev)
    \/ ConsumeDirty
    \/ LoopStep

SpecLoop == Init /\ [][NextLoop]_vars

\* The loop never waits: each iteration runs to its end.
FairLoop == SpecLoop /\ WF_vars(ConsumeDirty) /\ WF_vars(LoopStep)

---------------------------------------------------------------------------
(* The compositing decision applied to given hit distances *)

Distances == { None } \cup { Some(k * 10 * LS) : k \in 1 .. MaxT }

\* the inputs: an orientation, a pixel row of a 1 x MaxHeight image, the two
\* hit distances
InitComposite ==
    /\ Setup
    /\ \E ph \in {0, Drag * mouse_sensitivity, PiHalf}, y \in 0 .. MaxHeight - 1,
          t_bh \in Distances, t_disk \in Distances :
            op = <<"inputs", ph, y, t_bh, t_disk>>

Composite ==
    LET Decide(ro, rd, t_bh, t_disk) ==
            /\ rd # NaNVec
            /\ outRender' = render_composite(ro, rd, t_bh, t_disk)
            /\ outStep' = step_composite(ro, rd, t_bh, t_disk)
            /\ op' = <<"composite", ro, rd, t_bh, t_disk>>
    IN  /\ op[1] = "inputs"
        /\ \E ro \in {position(0, op[2])},
              rd \in {ray_direction(0, op[2], 0, op[3], 1, MaxHeight)} :
                Decide(ro, rd, op[4], op[5])
        /\ UNCHANGED <<camVars, HEIGHT, WIDTH, renVars, loopVars, rows, ret,
                       moved, calls, stable, rowCam>>

NextComposite == Composite

SpecComposite == InitComposite /\ [][NextComposite]_vars

---------------------------------------------------------------------------
(* Properties *)

IsMotion(o) == o[1] = "event" /\ o[2].type = "MOUSEMOTION"
IsButton(o, type) == o[1] = "event" /\ o[2].type = type /\ o[2].button = 1

\* C1: after start(), stepping with R rows per call leaves the renderer
\* Scanning after each of the first ceil(H/R) - 1 calls and makes it Idle on
\* exactly the ceil(H/R)-th call.
C1_IdleAfterCeilCalls == active <=> calls < Ceil(rh, rows)

\* a scan of 3 rows, 2 per call, has just completed on its 2nd call
C1_Witness ==
    /\ rh = 3 /\ rows = 2
    /\ op = <<"step">> /\ calls = 2 /\ ~active

\* C2: if the orientation does not change between start() and the step()
\* that makes the renderer Idle, the buffer then equals the image render()
\* produces for that orientation, pixel for pixel.
C2_ScanEqualsRender ==
    [][(active /\ ~active' /\ stable') => frame' = render(theta', phi')]_vars

\* a scan of 4 rows, 3 per call, of a dragged camera has just completed and
\* shows the disk
C2_Witness ==
    /\ rh = 4 /\ rows = 3
    /\ op = <<"step">> /\ calls = 2 /\ ~active /\ stable
    /\ phi # 0
    /\ frame = render(theta, phi)
    /\ \E y \in 0 .. rh - 1 : frame[y][0] \notin {BLACK, BACKGROUND}

\* C3: under the host loop, when the renderer becomes Idle every row of the
\* buffer was written with the orientation the camera has at that moment.
C3_NoStaleRows ==
    [][(active /\ ~active') =>
        \A y \in 0 .. rh - 1 : rowCam'[y] = <<theta', phi'>>]_vars

\* C4: every motion event received while dragging sets the dirty flag;
\* consume_dirty() returns true exactly when such an event arrived since the
\* previous consume_dirty(), and leaves the flag cleared.
C4_DirtyConsumeOnce ==
    [][/\ (IsMotion(op') /\ dragging) => dirty'
       /\ op'[1] = "consume_dirty" => (ret' = moved /\ ~dirty')]_vars

\* C5: phi stays within [-pi/2, pi/2] under every sequence of press, release
\* and motion events.
C5_PhiClamped == (0 - PiHalf) <= phi /\ phi <= PiHalf

\* a drag motion with a very large positive dy has been clamped at -pi/2
C5_Witness ==
    /\ dragging /\ IsMotion(op) /\ op[2].rel[2] = HugeDrag
    /\ phi = 0 - PiHalf

\* C6 as stated: the cursor satisfies 0 <= next_row <= height in every state.
C6_CursorWithinHeight == 0 <= next_row /\ next_row <= rh

\* C6 as amended: 0 <= next_row < height + R, and next_row < height while
\* the renderer is Scanning.
C6_CursorBound ==
    /\ 0 <= next_row /\ next_row < rh + rows
    /\ active => next_row < rh

\* the step that completed the scan has moved the cursor past the height
C6_Witness == op = <<"step">> /\ ~active /\ next_row > rh

\* C7: in render() and in step() alike the pixel is black iff the sphere is
\* hit and the disk is not hit or is strictly farther; otherwise it is the
\* disk shade if the disk is hit, else the background colour.
C7_Compositing ==
    op[1] = "composite" =>
        LET sphere == op[4] # None
            disk == op[5] # None
            absorbed == sphere /\ (~disk \/ op[4][1] < op[5][1])
            Holds(out) ==
                /\ (out = BLACK) <=> absorbed
                /\ ~absorbed =>
                    out = IF disk THEN shade_disk(PointAt(op[2], op[3], op[5][1]))
                          ELSE BACKGROUND
        IN  Holds(outRender) /\ Holds(outStep)

\* sphere and disk are hit at the same distance and the pixel is disk-shaded
C7_Witness ==
    /\ op[1] = "composite" /\ op[4] # None /\ op[4] = op[5]
    /\ outStep \notin {BLACK, BACKGROUND} /\ outRender = outStep

\* C8: a motion event received while not dragging changes nothing of the
\* camera; dragging turns true only on a primary-button press and false only
\* on a primary-button release; the orientation changes only on a motion
\* event received while dragging.
C8_MotionOnlyWhileDragging ==
    [][/\ (IsMotion(op') /\ ~dragging) => UNCHANGED <<theta, phi, dragging, dirty>>
       /\ (dragging' /\ ~dragging) => IsButton(op', "MOUSEBUTTONDOWN")
       /\ (dragging /\ ~dragging') => IsButton(op', "MOUSEBUTTONUP")
       /\ IsButton(op', "MOUSEBUTTONDOWN") => dragging'
       /\ IsButton(op', "MOUSEBUTTONUP") => ~dragging'
       /\ (theta' # theta \/ phi' # phi) => (IsMotion(op') /\ dragging)]_vars

\* after a drag has turned the camera, a motion event arrived while not
\* dragging
C8_Witness ==
    /\ ~dragging /\ IsMotion(op) /\ op[2].rel = <<Drag, HugeDrag>>
    /\ theta # 0 /\ phi # 0

\* C9: step() on an Idle renderer leaves frame, next_row and active
\* unchanged; the completed buffer stays as it is until start() is called.
C9_IdleStepIsNoOp ==
    [][/\ (~active /\ op'[1] = "step") => UNCHANGED <<frame, next_row, active>>
       /\ (~active /\ op'[1] # "start") => (frame' = frame /\ ~active')]_vars

\* step() was called on an Idle renderer after the camera had been turned
C9_Witness ==
    /\ op = <<"step">> /\ ~active /\ calls > Ceil(rh, rows)
    /\ ~stable /\ phi # 0

\* C10: under the host loop, if from some iteration on no drag motion
\* arrives, the renderer eventually becomes Idle and stays Idle; an iteration
\* in which a drag motion arrived restarts the scan, so its step() starts at
\* row 0, does not reach Idle and rewrites no row at index >= R.
C10_HostLoop ==
    /\ ([]running /\ <>[](~changed)) => <>[](~active)
    /\ []((pc = "step" /\ changed) => (active /\ next_row = 0))
    /\ [][(pc = "step" /\ changed) =>
            (active' /\ \A y \in 0 .. rh - 1 : y >= rows => frame'[y] = frame[y])]_vars

===========================================================================
